---------------------------- MODULE Spec2Model ----------------------------
(***************************************************************************)
(* A model of the FedTools retrieval pipeline: link discovery, the bounded *)
(* multithreaded article retrieval and the assembly of the date-indexed    *)
(* dataset, for the three retrievers BeigeBooks, MonetaryPolicyCommittee   *)
(* and FederalReserveMins.                                                 *)
(*                                                                         *)
(* Python strings are TLA+ strings (TLC evaluates Len, \o and SubSeq on    *)
(* them) and Python lists are sequences.  TLC compares only values of one  *)
(* shape, so a list-valued name that is None (or unbound) holds the marker *)
(* list None, which no list of the program equals, and self.dataset, a     *)
(* DataFrame [rows |-> ...] or None, holds the record NoDataset for None.  *)
(*                                                                         *)
(* Three specifications share the variables.  Spec (and FairSpec) is the   *)
(* pipeline of a well-typed instance under every interleaving of its       *)
(* threads.  ApiSpec adds the constructor called with a mistyped argument  *)
(* and pickle_data with its file system.  HelperSpec applies               *)
(* _find_date_from_link and the replace chain to links and bodies drawn    *)
(* from bounded sets.                                                      *)
(***************************************************************************)
EXTENDS Integers, Sequences, FiniteSets, TLC

(***************************************************************************)
(* Bounds of the model.                                                    *)
(***************************************************************************)
\* thread_num is drawn from -1..MaxThreads
MaxThreads == 2
\* the largest thread_num where construction and pickle_data are explored
ApiThreads == 1
\* the longest body the replace chain is applied to directly
MaxBody == 3
\* how many times the replace chain is applied in a row
Applications == 2
\* start_year is drawn from (HISTORICAL_SPLIT - YearsBack)..(HISTORICAL_SPLIT + 1)
YearsBack == 1

(***************************************************************************)
(* String helpers (Python str operations used by the code).                *)
(***************************************************************************)
None == <<"None">>

NoDataset == [none |-> TRUE]

Char(s, i) == SubSeq(s, i, i)

Digits == {"0", "1", "2", "3", "4", "5", "6", "7", "8", "9"}

\* Python `sub in s`
Contains(s, sub) ==
  \E p \in 1..(Len(s) - Len(sub) + 1) : SubSeq(s, p, p + Len(sub) - 1) = sub

\* positions at which the pattern [0-9]{w} matches in s
DigitRunStarts(s, w) ==
  {p \in 1..(Len(s) - w + 1) : \A k \in 0..(w - 1) : Char(s, p + k) \in Digits}

\* re.findall('[0-9]{w}', s) is not empty
HasDigitRun(s, w) == DigitRunStarts(s, w) # {}

\* re.findall('[0-9]{w}', s)[0]: the leftmost match
FirstDigitRun(s, w) ==
  LET p == CHOOSE q \in DigitRunStarts(s, w) : \A r \in DigitRunStarts(s, w) : q <= r
  IN  SubSeq(s, p, p + w - 1)

\* characters str.strip() removes
NBSP == " "
Whitespace == {" ", "\n", "\r", "\t", "\f", NBSP}

RECURSIVE LStrip(_)
LStrip(s) == IF Len(s) > 0 /\ Char(s, 1) \in Whitespace
             THEN LStrip(SubSeq(s, 2, Len(s))) ELSE s

RECURSIVE RStrip(_)
RStrip(s) == IF Len(s) > 0 /\ Char(s, Len(s)) \in Whitespace
             THEN RStrip(SubSeq(s, 1, Len(s) - 1)) ELSE s

\* str.strip()
Strip(s) == RStrip(LStrip(s))

\* str.replace(old, new) for a one-character old
RECURSIVE Replace(_, _, _)
Replace(s, old, new) ==
  IF Len(s) = 0 THEN ""
  ELSE (IF Char(s, 1) = old THEN new ELSE Char(s, 1))
       \o Replace(SubSeq(s, 2, Len(s)), old, new)

\* sep.join(parts)
RECURSIVE Join(_, _)
Join(sep, parts) ==
  IF Len(parts) = 0 THEN ""
  ELSE IF Len(parts) = 1 THEN parts[1]
  ELSE parts[1] \o sep \o Join(sep, Tail(parts))


(***************************************************************************)
(* Configuration of a retriever (constructor arguments).                   *)
(***************************************************************************)
Kinds == {"BeigeBooks", "MonetaryPolicyCommittee", "FederalReserveMins"}

main_url == "https://www.federalreserve.gov"

HISTORICAL_SPLIT == 2014

StartYears == (HISTORICAL_SPLIT - YearsBack)..(HISTORICAL_SPLIT + 1)

\* the digit pattern of _find_date_from_link: [0-9]{6} or [0-9]{8}
DateWidth(k) == IF k = "BeigeBooks" THEN 6 ELSE 8

(***************************************************************************)
(* The web site: what the page fetcher and the HTML parser return.  A site *)
(* is the list of hrefs the current index page yields for the retriever's  *)
(* anchor pattern, and for each year the hrefs of the labelled anchors of  *)
(* that year's historical page.  Locations are named by a letter.          *)
(***************************************************************************)
BeigeBookLocation(l) ==
  CASE l = "A" -> "/monetarypolicy/beigebook201503.htm"
    [] l = "B" -> "/monetarypolicy/beigebook201411.htm"
    [] l = "C" -> "/fomc/beigebook/2013/20130306/default.htm"
    [] l = "D" -> "https://www.federalreserve.gov/monetarypolicy/beigebook/beigebook201411.htm"
    [] l = "E" -> "/monetarypolicy/beigebook/default.htm"
    [] l = "F" -> "/monetarypolicy/beigebook/files/BeigeBook_20140115.htm"

StatementLocation(l) ==
  CASE l = "A" -> "/newsevents/pressreleases/monetary20150128a.htm"
    [] l = "B" -> "/newsevents/pressreleases/monetary20141029a.htm"
    [] l = "C" -> "/newsevents/press/monetary/20130130a.htm"
    [] l = "D" -> "https://www.federalreserve.gov/newsevents/press/monetary/20141029a.htm"
    [] l = "E" -> "/boarddocs/press/general/default.htm"
    [] l = "F" -> "/newsevents/press/monetary/20140129a.htm"

MinutesLocation(l) ==
  CASE l = "A" -> "/monetarypolicy/fomcminutes20150128.htm"
    [] l = "B" -> "/monetarypolicy/fomcminutes20141029.htm"
    [] l = "C" -> "/fomc/minutes/20130130.htm"
    [] l = "D" -> "https://www.federalreserve.gov/monetarypolicy/fomcminutes20141029.htm"
    [] l = "E" -> "/fomc/MINUTES/2013/default.htm"
    [] l = "F" -> "/monetarypolicy/files/fomc20140129tealbooka.htm"

Location(k, l) ==
  IF k = "BeigeBooks" THEN BeigeBookLocation(l)
  ELSE IF k = "MonetaryPolicyCommittee" THEN StatementLocation(l)
  ELSE MinutesLocation(l)

Letters == {"A", "B", "C", "D", "E", "F"}

\* the paragraphs (get_text() of each <p>) of the document at a location
Paragraphs(l) ==
  CASE l = "A" -> <<" Alpha\tone ", "two\r\nthree">>
    [] l = "B" -> <<"Bravo" \o NBSP \o "x">>
    [] l = "C" -> <<"\nCharlie", "">>
    [] l = "D" -> <<"Delta ">>
    [] l = "E" -> <<"Echo">>
    [] l = "F" -> <<"Foxtrot">>

\* the URL under which the site serves the document of a location
TrueUrl(loc) == IF Contains(loc, main_url) THEN loc ELSE main_url \o loc

\* urlopen(url) can succeed: the site serves a document there
PageExists(k, url) == \E l \in Letters : TrueUrl(Location(k, l)) = url

\* the paragraphs of the document served at url
PageParagraphs(k, url) ==
  Paragraphs(CHOOSE l \in Letters : TrueUrl(Location(k, l)) = url)

Sites ==
  << [current |-> <<"A", "B">>, recent |-> <<"A">>, earlier |-> <<>>],
     [current |-> <<"B">>,      recent |-> <<"D">>, earlier |-> <<"C">>],
     [current |-> <<"A">>,      recent |-> <<"F">>, earlier |-> <<"E">>],
     [current |-> <<>>,         recent |-> <<>>,    earlier |-> <<>>] >>

\* the labelled anchors of the historical page of year y: the page of the
\* split year, the page of the year before it, and empty pages further back
HistoricalPage(s, y) ==
  IF y = HISTORICAL_SPLIT THEN Sites[s].recent
  ELSE IF y = HISTORICAL_SPLIT - 1 THEN Sites[s].earlier
  ELSE <<>>

Hrefs(k, letters) == [i \in 1..Len(letters) |-> Location(k, letters[i])]

\* hrefs found on the current index page
CurrentHrefs(k, s) == Hrefs(k, Sites[s].current)

\* hrefs of the labelled anchors on the historical page of year y
HistoricalHrefs(k, s, y) == Hrefs(k, HistoricalPage(s, y))


(***************************************************************************)
(* _find_date_from_link and pd.to_datetime.                                *)
(***************************************************************************)
\* a variant of _find_date_from_link: the month always keeps its two digits
_find_date_from_link_TwoDigitMonth(k, link) ==
  LET date == FirstDigitRun(link, DateWidth(k))
      day  == IF k = "BeigeBooks" THEN "01" ELSE SubSeq(date, 7, Len(date))
  IN  SubSeq(date, 1, 4) \o "/" \o SubSeq(date, 5, 6) \o "/" \o day

\* a variant of _find_date_from_link: the day is what follows the month in
\* the digits, for the Beige Books too
_find_date_from_link_DayFromDigits(k, link) ==
  LET date == FirstDigitRun(link, DateWidth(k))
      day  == SubSeq(date, 7, Len(date))
  IN  IF Char(date, 5) = "0"
      THEN SubSeq(date, 1, 4) \o "/" \o SubSeq(date, 6, 6) \o "/" \o day
      ELSE SubSeq(date, 1, 4) \o "/" \o SubSeq(date, 5, 6) \o "/" \o day

\* the date string built from the first w digits of the link; the caller
\* checks HasDigitRun first (findall(...)[0] raises IndexError otherwise)
_find_date_from_link(k, link) ==
  LET date == FirstDigitRun(link, DateWidth(k))
      day  == IF k = "BeigeBooks" THEN "01" ELSE SubSeq(date, 7, Len(date))
  IN  IF Char(date, 5) = "0"
      THEN SubSeq(date, 1, 4) \o "/" \o SubSeq(date, 6, 6) \o "/" \o day
      ELSE SubSeq(date, 1, 4) \o "/" \o SubSeq(date, 5, 6) \o "/" \o day

DigitVal(c) == CHOOSE n \in 0..9 : Char("0123456789", n + 1) = c

RECURSIVE Num(_)
Num(s) == IF Len(s) = 0 THEN 0
          ELSE 10 * Num(SubSeq(s, 1, Len(s) - 1)) + DigitVal(Char(s, Len(s)))

\* the year, month and day fields of a "Y/M/D" date string
DateFields(s) ==
  LET slashes == {p \in 1..Len(s) : Char(s, p) = "/"}
      p1 == CHOOSE p \in slashes : \A q \in slashes : p <= q
      p2 == CHOOSE p \in slashes : \A q \in slashes : p >= q
  IN  [y |-> Num(SubSeq(s, 1, p1 - 1)),
       m |-> Num(SubSeq(s, p1 + 1, p2 - 1)),
       d |-> Num(SubSeq(s, p2 + 1, Len(s)))]

DaysInMonth(y, m) ==
  IF m \in {4, 6, 9, 11} THEN 30
  ELSE IF m # 2 THEN 31
  ELSE IF (y % 4 = 0 /\ y % 100 # 0) \/ y % 400 = 0 THEN 29 ELSE 28

\* pd.to_datetime accepts the string (it raises on a month or day out of range)
IsDate(s) ==
  LET f == DateFields(s)
  IN  f.m \in 1..12 /\ f.d \in 1..DaysInMonth(f.y, f.m)

\* the Timestamp of a date string, as the number YYYYMMDD (ordered as dates are)
ToDatetime(s) ==
  LET f == DateFields(s)
  IN  f.y * 10000 + f.m * 100 + f.d


(***************************************************************************)
(* Helpers of link discovery and of _add_article.                          *)
(***************************************************************************)
\* [x for x in xs if sub in x]
RECURSIVE Filter(_, _)
Filter(xs, sub) ==
  IF Len(xs) = 0 THEN <<>>
  ELSE (IF Contains(Head(xs), sub) THEN <<Head(xs)>> ELSE <<>>) \o Filter(Tail(xs), sub)

\* FederalReserveMins: annual_links as computed from full_links
AnnualLinks(fl) ==
  Filter(fl, "fomcminutes") \o Filter(fl, "MINUTES") \o Filter(fl, "minutes")

InSeq(x, xs) == \E i \in 1..Len(xs) : xs[i] = x

\* for x in xs: if x not in ls: ls.append(x)
RECURSIVE AppendUnique(_, _)
AppendUnique(ls, xs) ==
  IF Len(xs) = 0 THEN ls
  ELSE AppendUnique(IF InSeq(Head(xs), ls) THEN ls ELSE Append(ls, Head(xs)), Tail(xs))

\* the URL _add_article opens for a link
RequestUrl(k, link) ==
  CASE k = "BeigeBooks" ->
         IF ~Contains(link, main_url) THEN main_url \o link ELSE link
    [] k = "FederalReserveMins" ->
         IF Len(link) <= 50 THEN main_url \o link ELSE link
    [] k = "MonetaryPolicyCommittee" -> main_url \o link

\* "\n\n".join([paragraph.get_text().strip() for paragraph in paragraph_delimiter])
ArticleText(paragraphs) ==
  Join("\n\n", [i \in 1..Len(paragraphs) |-> Strip(paragraphs[i])])

(***************************************************************************)
(* State.                                                                  *)
(***************************************************************************)
VARIABLES
  kind,           \* which retriever class the instance is
  site,           \* which site content the fetcher sees
  THREAD_NUM,     \* self.THREAD_NUM
  start_year,     \* self.start_year (the start_year argument of find_minutes)
  mistyped,       \* the constructor argument given a value of the wrong type, or "none"
  request,        \* history: the public method called last, with its argument
  dirs,           \* the directories that exist on the disk
  files,          \* history: the files written by this call
  call,           \* a direct call of a helper: its name, argument and result
  links,          \* self.links
  full_links,     \* self.full_links (FederalReserveMins only)
  dates,          \* self.dates
  articles,       \* self.articles
  dataset,        \* self.dataset
  pc,             \* where the top-level operation is
  year,           \* loop variable of _obtain_links
  annual_links,   \* local of FederalReserveMins._obtain_links; None while unbound
  index,          \* local of _multithreaded_article_retrieval (0-based, as in the code)
  jobs,           \* local of _multithreaded_article_retrieval: started threads, by slot
  thread,         \* state of the thread of each slot
  outcome,        \* how the last top-level call ended, "running" during one
  started,        \* history: slots in the order their threads were started
  joined,         \* history: slots whose thread the dispatcher has joined
  fetched,        \* history: index pages opened by this call
  entry_dataset   \* history: self.dataset when the call began

config == <<kind, site, THREAD_NUM, start_year, mistyped>>
disk == <<dirs, files>>
fields == <<links, full_links, dates, articles, dataset>>
locals == <<year, annual_links, index, jobs, thread>>
history == <<started, joined, fetched, entry_dataset>>
vars == <<config, fields, locals, history, pc, outcome, request, disk, call>>

\* the arguments of __init__; calendar_url stands for beige_book_url too, and
\* FederalReserveMins takes start_year in find_minutes, not in __init__
Arguments(k) ==
  {"main_url", "calendar_url", "historical_split", "verbose", "thread_num"}
    \cup (IF k = "FederalReserveMins" THEN {} ELSE {"start_year"})

\* no value of a legal call of pickle_data or of a helper
NoRequest == [op |-> "none"]
NoCall == [fn |-> "none"]

\* the class, the site and the start year are chosen; __init__ has not run yet
Unconstructed ==
  /\ kind \in Kinds
  /\ site \in 1..Len(Sites)
  /\ start_year \in StartYears
  /\ links = None /\ full_links = None /\ dates = None /\ articles = None
  /\ dataset = NoDataset
  /\ pc = "new"
  /\ request = NoRequest
  /\ dirs = {} /\ files = {}
  /\ year = start_year /\ annual_links = None
  /\ index = 0 /\ jobs = <<>> /\ thread = <<>>
  /\ outcome = "none"
  /\ started = <<>> /\ joined = {} /\ fetched = <<>>
  /\ entry_dataset = NoDataset

\* every argument of the constructor has a value of its type
Init ==
  /\ Unconstructed
  /\ THREAD_NUM \in -1..MaxThreads
  /\ mistyped = "none"
  /\ call = NoCall

\* at most one argument of the constructor has a value of the wrong type; a
\* thread_num that is no integer has no integer value (0 stands for it)
ApiInit ==
  /\ Unconstructed
  /\ THREAD_NUM \in 0..ApiThreads
  /\ mistyped \in {"none"} \cup Arguments(kind)
  /\ mistyped = "thread_num" => THREAD_NUM = 0
  /\ call = NoCall

\* the locals of a call that has ended
LocalsDropped ==
  /\ year' = start_year /\ annual_links' = None
  /\ index' = 0 /\ jobs' = <<>> /\ thread' = <<>>

\* an exception leaves the top-level operation
Raise(e) ==
  /\ pc' = "idle"
  /\ outcome' = e
  /\ LocalsDropped

(***************************************************************************)
(* __init__                                                                *)
(***************************************************************************)
\* the isinstance checks of BeigeBooks and MonetaryPolicyCommittee;
\* FederalReserveMins.__init__ has none
TypeChecked == kind # "FederalReserveMins"

\* __init__ stores its arguments and sets the other fields to None
Construct ==
  /\ pc = "new"
  /\ ~(TypeChecked /\ mistyped # "none")
  /\ links' = None /\ full_links' = None /\ dates' = None /\ articles' = None
  /\ dataset' = NoDataset
  /\ pc' = "idle"
  /\ UNCHANGED <<config, request, disk, call, locals, history, outcome>>

\* __init__ raises TypeError: there is no instance
ConstructFails ==
  /\ pc = "new"
  /\ TypeChecked /\ mistyped # "none"
  /\ pc' = "unconstructed"
  /\ outcome' = "TypeError"
  /\ UNCHANGED <<config, request, disk, call, fields, locals, history>>

\* the statement the call executes next evaluates a field whose value has the
\* wrong type and raises: urlopen(self.calendar_url), the comparison
\* start_year <= self.HISTORICAL_SPLIT, self.main_url + '/monetarypolicy/...',
\* len(jobs) < self.THREAD_NUM.  (A verbose of another type is only tested
\* for truth.  self.main_url + link in _add_article is not reached with a
\* mistyped main_url: _obtain_links has raised before.)
TypeFault ==
  \/ mistyped = "calendar_url" /\ pc = "current"
  \/ mistyped = "historical_split" /\ pc = "historical"
  \/ mistyped = "main_url" /\ pc = "historical" /\ year <= HISTORICAL_SPLIT
  \/ mistyped = "thread_num" /\ pc = "dispatch" /\ index < Len(links)

\* the exception of a TypeFault leaves the top-level operation: TypeError
\* from the operators, AttributeError from urlopen (of an integer)
TypeFails ==
  /\ TypeFault
  /\ Raise(IF mistyped = "calendar_url" THEN "AttributeError" ELSE "TypeError")
  /\ UNCHANGED <<config, request, disk, call, fields, history>>

(***************************************************************************)
(* _obtain_links                                                           *)
(***************************************************************************)
\* the index page _obtain_links opens next, and whether urlopen returned it
IndexPage(ok) ==
  IF pc = "current" THEN [page |-> "current", ok |-> ok]
  ELSE [page |-> "historical", year |-> year, ok |-> ok]

\* find_beige_books / find_statements / find_minutes is called; _obtain_links
\* runs up to its first urlopen
Call ==
  /\ pc = "idle"
  /\ pc' = "current"
  /\ outcome' = "running"
  /\ links' = <<>>
  /\ full_links' = IF kind = "FederalReserveMins" THEN <<>> ELSE full_links
  /\ started' = <<>> /\ joined' = {} /\ fetched' = <<>>
  /\ entry_dataset' = dataset
  /\ request' = [op |-> "find"]
  /\ files' = {}
  /\ UNCHANGED <<config, dirs, call, dates, articles, dataset, locals>>

\* the current index page is opened and its matching hrefs become self.links
ObtainCurrent ==
  /\ ~TypeFault
  /\ pc = "current"
  /\ links' = CurrentHrefs(kind, site)
  /\ fetched' = Append(fetched, IndexPage(TRUE))
  /\ year' = start_year
  /\ pc' = "historical"
  /\ UNCHANGED <<config, request, disk, call, full_links, dates, articles, dataset, annual_links,
                 index, jobs, thread, outcome, started, joined, entry_dataset>>

\* a variant of ObtainHistorical: the loop steps over every second year
ObtainHistorical_SkipsYear ==
  /\ ~TypeFault
  /\ pc = "historical"
  /\ year <= HISTORICAL_SPLIT
  /\ LET hrefs == HistoricalHrefs(kind, site, year)
     IN  IF kind = "FederalReserveMins"
         THEN /\ full_links' = full_links \o hrefs
              /\ annual_links' = IF Len(hrefs) > 0 THEN AnnualLinks(full_links \o hrefs)
                                 ELSE annual_links
              /\ links' = links
         ELSE /\ links' = links \o hrefs
              /\ UNCHANGED <<full_links, annual_links>>
  /\ fetched' = Append(fetched, IndexPage(TRUE))
  /\ year' = year + 2
  /\ UNCHANGED <<config, request, disk, call, dates, articles, dataset, index, jobs, thread, pc,
                 outcome, started, joined, entry_dataset>>

\* one iteration of the loop over the historical years
ObtainHistorical ==
  /\ ~TypeFault
  /\ pc = "historical"
  /\ year <= HISTORICAL_SPLIT
  /\ LET hrefs == HistoricalHrefs(kind, site, year)
     IN  IF kind = "FederalReserveMins"
         THEN /\ full_links' = full_links \o hrefs
              /\ annual_links' = IF Len(hrefs) > 0 THEN AnnualLinks(full_links \o hrefs)
                                 ELSE annual_links
              /\ links' = links
         ELSE /\ links' = links \o hrefs
              /\ UNCHANGED <<full_links, annual_links>>
  /\ fetched' = Append(fetched, IndexPage(TRUE))
  /\ year' = year + 1
  /\ UNCHANGED <<config, request, disk, call, dates, articles, dataset, index, jobs, thread, pc,
                 outcome, started, joined, entry_dataset>>

\* a variant of ObtainFails: the failure is swallowed and discovery goes on to
\* retrieval with the links found so far
ObtainFails_Swallowed ==
  /\ ~TypeFault
  /\ \/ pc = "current"
     \/ pc = "historical" /\ year <= HISTORICAL_SPLIT
  /\ pc' = "retrieve"
  /\ fetched' = Append(fetched, IndexPage(FALSE))
  /\ UNCHANGED <<config, request, disk, call, fields, locals, outcome, started, joined, entry_dataset>>

\* urlopen of an index page raises
ObtainFails ==
  /\ ~TypeFault
  /\ \/ pc = "current"
     \/ pc = "historical" /\ year <= HISTORICAL_SPLIT
  /\ Raise("URLError")
  /\ fetched' = Append(fetched, IndexPage(FALSE))
  /\ UNCHANGED <<config, request, disk, call, fields, started, joined, entry_dataset>>

\* FederalReserveMins: "for x in annual_links" with annual_links never assigned
ObtainUnbound ==
  /\ ~TypeFault
  /\ pc = "historical"
  /\ year > HISTORICAL_SPLIT
  /\ kind = "FederalReserveMins"
  /\ annual_links = None
  /\ Raise("UnboundLocalError")
  /\ UNCHANGED <<config, request, disk, call, fields, history>>

\* _obtain_links returns
ObtainReturn ==
  /\ ~TypeFault
  /\ pc = "historical"
  /\ year > HISTORICAL_SPLIT
  /\ IF kind = "FederalReserveMins"
     THEN /\ annual_links # None
          /\ links' = AppendUnique(links, annual_links)
     ELSE links' = links
  /\ pc' = "retrieve"
  /\ UNCHANGED <<config, request, disk, call, full_links, dates, articles, dataset, locals, outcome, history>>


(***************************************************************************)
(* _multithreaded_article_retrieval: the dispatcher                        *)
(***************************************************************************)
Terminated(t) == thread[t] \in {"done", "IndexError", "URLError"}

\* self.dates, self.articles = [], [''] * len(self.links); jobs = []; index = 0
RetrievalInit ==
  /\ pc = "retrieve"
  /\ dates' = <<>>
  /\ articles' = [i \in 1..Len(links) |-> ""]
  /\ jobs' = <<>>
  /\ index' = 0
  /\ thread' = [i \in 1..Len(links) |-> "new"]
  /\ pc' = "dispatch"
  /\ UNCHANGED <<config, request, disk, call, links, full_links, dataset, year, annual_links, outcome, history>>

\* a variant of StartThread: admission with len(jobs) <= THREAD_NUM
StartThread_OneTooMany ==
  /\ ~TypeFault
  /\ pc = "dispatch"
  /\ index < Len(links)
  /\ Len(jobs) <= THREAD_NUM
  /\ jobs' = Append(jobs, index + 1)
  /\ thread' = [thread EXCEPT ![index + 1] = "started"]
  /\ started' = Append(started, index + 1)
  /\ index' = index + 1
  /\ UNCHANGED <<config, request, disk, call, fields, year, annual_links, pc, outcome, joined, fetched,
                 entry_dataset>>

\* a variant of StartThread: index advances by two
StartThread_SkipsSlot ==
  /\ ~TypeFault
  /\ pc = "dispatch"
  /\ index < Len(links)
  /\ Len(jobs) < THREAD_NUM
  /\ jobs' = Append(jobs, index + 1)
  /\ thread' = [thread EXCEPT ![index + 1] = "started"]
  /\ started' = Append(started, index + 1)
  /\ index' = index + 2
  /\ UNCHANGED <<config, request, disk, call, fields, year, annual_links, pc, outcome, joined, fetched,
                 entry_dataset>>

\* if len(jobs) < self.THREAD_NUM: a thread for links[index] is created and started
StartThread ==
  /\ ~TypeFault
  /\ pc = "dispatch"
  /\ index < Len(links)
  /\ Len(jobs) < THREAD_NUM
  /\ jobs' = Append(jobs, index + 1)
  /\ thread' = [thread EXCEPT ![index + 1] = "started"]
  /\ started' = Append(started, index + 1)
  /\ index' = index + 1
  /\ UNCHANGED <<config, request, disk, call, fields, year, annual_links, pc, outcome, joined, fetched,
                 entry_dataset>>

\* a variant of JoinOldest: the dispatcher takes whichever thread of the
\* window has ended, as a pool would
JoinOldest_AnyEnded ==
  /\ ~TypeFault
  /\ pc = "dispatch"
  /\ index < Len(links)
  /\ ~(Len(jobs) < THREAD_NUM)
  /\ \E i \in 1..Len(jobs) :
       /\ Terminated(jobs[i])
       /\ jobs' = SubSeq(jobs, 1, i - 1) \o SubSeq(jobs, i + 1, Len(jobs))
       /\ joined' = joined \cup {jobs[i]}
  /\ UNCHANGED <<config, request, disk, call, fields, year, annual_links, index, thread, pc, outcome,
                 started, fetched, entry_dataset>>

\* else: thread = jobs.pop(0); thread.join() -- returns once that thread has ended
JoinOldest ==
  /\ ~TypeFault
  /\ pc = "dispatch"
  /\ index < Len(links)
  /\ ~(Len(jobs) < THREAD_NUM)
  /\ Len(jobs) > 0
  /\ Terminated(Head(jobs))
  /\ jobs' = Tail(jobs)
  /\ joined' = joined \cup {Head(jobs)}
  /\ UNCHANGED <<config, request, disk, call, fields, year, annual_links, index, thread, pc, outcome,
                 started, fetched, entry_dataset>>

\* a variant of PopFails: with nothing to join the dispatcher goes on to the
\* next link
PopFails_SkipsLink ==
  /\ ~TypeFault
  /\ pc = "dispatch"
  /\ index < Len(links)
  /\ ~(Len(jobs) < THREAD_NUM)
  /\ Len(jobs) = 0
  /\ index' = index + 1
  /\ UNCHANGED <<config, request, disk, call, fields, year, annual_links, jobs, thread, pc, outcome,
                 history>>

\* else: jobs.pop(0) on an empty list raises IndexError
PopFails ==
  /\ ~TypeFault
  /\ pc = "dispatch"
  /\ index < Len(links)
  /\ ~(Len(jobs) < THREAD_NUM)
  /\ Len(jobs) = 0
  /\ Raise("IndexError")
  /\ UNCHANGED <<config, request, disk, call, fields, history>>

\* a variant of JoinRemaining: the threads left are dropped without join()
JoinRemaining_NoWait ==
  /\ pc = "dispatch"
  /\ index >= Len(links)
  /\ Len(jobs) > 0
  /\ jobs' = Tail(jobs)
  /\ joined' = joined \cup {Head(jobs)}
  /\ UNCHANGED <<config, request, disk, call, fields, year, annual_links, index, thread, pc, outcome,
                 started, fetched, entry_dataset>>

\* for thread in jobs: thread.join() -- the threads left are joined oldest first
\* (the joined prefix of jobs is dropped here; the code only iterates)
JoinRemaining ==
  /\ pc = "dispatch"
  /\ index >= Len(links)
  /\ Len(jobs) > 0
  /\ Terminated(Head(jobs))
  /\ jobs' = Tail(jobs)
  /\ joined' = joined \cup {Head(jobs)}
  /\ UNCHANGED <<config, request, disk, call, fields, year, annual_links, index, thread, pc, outcome,
                 started, fetched, entry_dataset>>

\* for row in range(len(self.articles)): self.articles[row] = self.articles[row].strip()
StripArticles ==
  /\ pc = "dispatch"
  /\ index >= Len(links)
  /\ Len(jobs) = 0
  /\ articles' = [i \in 1..Len(articles) |-> Strip(articles[i])]
  /\ pc' = "assemble"
  /\ UNCHANGED <<config, request, disk, call, links, full_links, dates, dataset, locals, outcome, history>>

(***************************************************************************)
(* _add_article, run by the thread of slot t with link = links[t] (the     *)
(* 0-based index t - 1 of the code)                                        *)
(***************************************************************************)
\* self.dates.append(self._find_date_from_link(link))
AddArticleDate(t) ==
  /\ thread[t] = "started"
  /\ HasDigitRun(links[t], DateWidth(kind))
  /\ dates' = Append(dates, _find_date_from_link(kind, links[t]))
  /\ thread' = [thread EXCEPT ![t] = "dated"]
  /\ UNCHANGED <<config, request, disk, call, links, full_links, articles, dataset, year, annual_links,
                 index, jobs, pc, outcome, history>>

\* a variant of AddArticleNoDate: the thread records the whole link as its
\* date before it ends
AddArticleNoDate_Recorded(t) ==
  /\ thread[t] = "started"
  /\ ~HasDigitRun(links[t], DateWidth(kind))
  /\ dates' = Append(dates, links[t])
  /\ thread' = [thread EXCEPT ![t] = "IndexError"]
  /\ UNCHANGED <<config, request, disk, call, links, full_links, articles, dataset, year, annual_links,
                 index, jobs, pc, outcome, history>>

\* re.findall(...)[0] raises IndexError: the thread ends, nothing is recorded
AddArticleNoDate(t) ==
  /\ thread[t] = "started"
  /\ ~HasDigitRun(links[t], DateWidth(kind))
  /\ thread' = [thread EXCEPT ![t] = "IndexError"]
  /\ UNCHANGED <<config, request, disk, call, fields, year, annual_links, index, jobs, pc, outcome, history>>

\* a variant of AddArticleFetch: the text goes to the slot of arrival
\* (position of the last recorded date) instead of the slot of the index
AddArticleFetch_ByArrival(t) ==
  /\ thread[t] = "dated"
  /\ PageExists(kind, RequestUrl(kind, links[t]))
  /\ articles' = [articles EXCEPT
                    ![Len(dates)] = ArticleText(PageParagraphs(kind, RequestUrl(kind, links[t])))]
  /\ thread' = [thread EXCEPT ![t] = "done"]
  /\ UNCHANGED <<config, request, disk, call, links, full_links, dates, dataset, year, annual_links,
                 index, jobs, pc, outcome, history>>

\* the page is opened and parsed; self.articles[index] = the joined paragraphs
AddArticleFetch(t) ==
  /\ thread[t] = "dated"
  /\ PageExists(kind, RequestUrl(kind, links[t]))
  /\ articles' = [articles EXCEPT
                    ![t] = ArticleText(PageParagraphs(kind, RequestUrl(kind, links[t])))]
  /\ thread' = [thread EXCEPT ![t] = "done"]
  /\ UNCHANGED <<config, request, disk, call, links, full_links, dates, dataset, year, annual_links,
                 index, jobs, pc, outcome, history>>

\* a variant of AddArticleFails: the failing thread leaves an error marker
\* in its slot
AddArticleFails_Marked(t) ==
  /\ thread[t] = "dated"
  /\ articles' = [articles EXCEPT ![t] = "ERROR"]
  /\ thread' = [thread EXCEPT ![t] = "URLError"]
  /\ UNCHANGED <<config, request, disk, call, links, full_links, dates, dataset, year, annual_links,
                 index, jobs, pc, outcome, history>>

\* urlopen raises in the thread: the thread ends, its slot is not written
AddArticleFails(t) ==
  /\ thread[t] = "dated"
  /\ thread' = [thread EXCEPT ![t] = "URLError"]
  /\ UNCHANGED <<config, request, disk, call, fields, year, annual_links, index, jobs, pc, outcome, history>>

(***************************************************************************)
(* The assembly of the dataset in find_beige_books / find_statements /     *)
(* find_minutes                                                            *)
(***************************************************************************)
IsSorted(rows) == \A i \in 1..(Len(rows) - 1) : rows[i].date <= rows[i + 1].date

\* a variant of SortIndex: the frame is left in the order it was built
SortIndex_AsBuilt(rows) == {rows}

\* DataFrame.sort_index(): an index that is already ascending is left as it is;
\* otherwise the default sort (quicksort, not stable) may leave rows of equal
\* date in any order
SortIndex(rows) ==
  IF IsSorted(rows) THEN {rows}
  ELSE {r \in {[i \in 1..Len(rows) |-> rows[p[i]]] : p \in Permutations(1..Len(rows))} :
          IsSorted(r)}

\* the rows of rows[i..] that index.duplicated(keep='first') does not mark:
\* those with no earlier row of the same date
RECURSIVE FirstOfDate(_, _)
FirstOfDate(rows, i) ==
  IF i > Len(rows) THEN <<>>
  ELSE (IF \A j \in 1..(i - 1) : rows[j].date # rows[i].date THEN <<rows[i]>> ELSE <<>>)
       \o FirstOfDate(rows, i + 1)

\* dataset[~dataset.index.duplicated(keep='first')]
DropDuplicated(rows) == FirstOfDate(rows, 1)

\* a variant of Normalise: the tabs are left in the body
Normalise_KeepsTabs(k, body) ==
  LET r == Replace(Replace(Replace(body, "\n", " "), "\r", " "), NBSP, "")
  IN  IF k = "FederalReserveMins" THEN Strip(r) ELSE r

\* a variant of Normalise: a tab becomes a newline, after the newlines have
\* been replaced
Normalise_TabToNewline(k, body) ==
  LET r == Replace(Replace(Replace(Replace(body, "\n", " "), "\r", " "), "\t", "\n"), NBSP, "")
  IN  IF k = "FederalReserveMins" THEN Strip(r) ELSE r

\* the replace() calls on each body, and for FederalReserveMins the strip()
Normalise(k, body) ==
  LET r == Replace(Replace(Replace(Replace(body, "\n", " "), "\r", " "), "\t", ""), NBSP, "")
  IN  IF k = "FederalReserveMins" THEN Strip(r) ELSE r

\* pd.DataFrame(self.articles, index=pd.to_datetime(self.dates))
Frame(ds, arts) ==
  [i \in 1..Len(arts) |-> [date |-> ToDatetime(ds[i]), body |-> arts[i]]]

\* the frame after sort_index (sorted is one outcome of it), the removal of
\* duplicated dates where the class does it, and the normalisation of the bodies
Assembled(k, sorted) ==
  LET kept == IF k = "FederalReserveMins" THEN DropDuplicated(sorted) ELSE sorted
  IN  [i \in 1..Len(kept) |-> [date |-> kept[i].date, body |-> Normalise(k, kept[i].body)]]

\* pd.to_datetime and the DataFrame constructor accept dates and articles
Frameable ==
  /\ Len(dates) = Len(articles)
  /\ \A i \in 1..Len(dates) : IsDate(dates[i])

\* the dataset is built and returned
Assemble ==
  /\ pc = "assemble"
  /\ Frameable
  /\ Len(articles) > 0
  /\ \E sorted \in SortIndex(Frame(dates, articles)) :
       dataset' = [rows |-> Assembled(kind, sorted)]
  /\ pc' = IF request.op = "pickle_data" THEN "write" ELSE "idle"
  /\ outcome' = IF request.op = "pickle_data" THEN "running" ELSE "returned"
  /\ LocalsDropped
  /\ entry_dataset' = dataset'
  /\ UNCHANGED <<config, request, disk, call, links, full_links, dates, articles, started, joined, fetched>>

\* no link: self.dataset becomes a frame with no row and no column, and
\* naming its column raises ValueError
AssembleEmpty ==
  /\ pc = "assemble"
  /\ Frameable
  /\ Len(articles) = 0
  /\ dataset' = [rows |-> <<>>]
  /\ Raise("ValueError")
  /\ UNCHANGED <<config, request, disk, call, links, full_links, dates, articles, history>>

\* pd.to_datetime or the DataFrame constructor raises (a date that is none, or
\* fewer dates than articles)
AssembleFails ==
  /\ pc = "assemble"
  /\ ~Frameable
  /\ Raise("ValueError")
  /\ UNCHANGED <<config, request, disk, call, fields, history>>

(***************************************************************************)
(* pickle_data                                                             *)
(***************************************************************************)
\* the directory arguments pickle_data is called with
Paths == {"", "data.pkl", "data.txt", "tmp/data.txt", "out/data.pkl", "no/such/data.pickle"}

\* str.endswith
EndsWith(s, suffix) ==
  /\ Len(s) >= Len(suffix)
  /\ SubSeq(s, Len(s) - Len(suffix) + 1, Len(s)) = suffix

\* directory.endswith((".pkl", ".pickle"))
HasPickleExtension(p) == EndsWith(p, ".pkl") \/ EndsWith(p, ".pickle")

\* os.path.split(p)[0] of a relative path: what precedes the last slash
Parent(p) ==
  LET slashes == {i \in 1..Len(p) : Char(p, i) = "/"}
  IN  IF slashes = {} THEN ""
      ELSE SubSeq(p, 1, (CHOOSE i \in slashes : \A j \in slashes : j <= i) - 1)

\* os.path.exists(d); false of the empty path
Exists(d) == d \in dirs

\* os.mkdir(d) and open(p, "wb") raise FileNotFoundError: the empty path, or
\* a directory that is not there (the working directory is)
NoSuchDirectory(d) == d # "" /\ ~Exists(d)
MkdirFails(d) == d = "" \/ NoSuchDirectory(Parent(d))

\* the call of a public method begins: what is recorded of the call before
\* is forgotten
CallBegins(r) ==
  /\ request' = r
  /\ started' = <<>> /\ joined' = {} /\ fetched' = <<>>
  /\ entry_dataset' = dataset
  /\ files' = {}

PickleRequest(p) == [op |-> "pickle_data", directory |-> p]

\* BeigeBooks, MonetaryPolicyCommittee: the extension is refused with TypeError
PickleRejected ==
  /\ pc = "idle"
  /\ kind # "FederalReserveMins"
  /\ \E p \in Paths :
       /\ ~HasPickleExtension(p)
       /\ CallBegins(PickleRequest(p))
  /\ outcome' = "TypeError"
  /\ UNCHANGED <<config, dirs, call, fields, locals, pc>>

\* os.mkdir raises, outside the try: FileNotFoundError for a path without a
\* parent or with a parent that cannot be created in one step,
\* PermissionError when the system refuses
PickleMkdirFails ==
  /\ pc = "idle"
  /\ kind # "FederalReserveMins"
  /\ \E p \in Paths :
       /\ HasPickleExtension(p)
       /\ ~Exists(Parent(p))
       /\ CallBegins(PickleRequest(p))
       /\ outcome' = IF MkdirFails(Parent(p)) THEN "FileNotFoundError"
                     ELSE "PermissionError"
  /\ UNCHANGED <<config, dirs, call, fields, locals, pc>>

\* the checks pass, the parent directory is there or is created, and
\* find_beige_books / find_statements is called
PickleData ==
  /\ pc = "idle"
  /\ kind # "FederalReserveMins"
  /\ \E p \in Paths :
       /\ HasPickleExtension(p)
       /\ Exists(Parent(p)) \/ ~MkdirFails(Parent(p))
       /\ dirs' = dirs \cup {Parent(p)}
       /\ CallBegins(PickleRequest(p))
  /\ pc' = "current"
  /\ outcome' = "running"
  /\ links' = <<>>
  /\ UNCHANGED <<config, call, full_links, dates, articles, dataset, locals>>

\* open and pickle.dump succeed: return True
PickleWrite ==
  /\ pc = "write"
  /\ Exists(Parent(request.directory))
  /\ files' = {request.directory}
  /\ pc' = "idle"
  /\ outcome' = "True"
  /\ UNCHANGED <<config, request, dirs, call, fields, locals, history>>

\* open raises: FileNotFoundError (the directory has been removed since it
\* was created) is caught and False is returned; PermissionError is not among
\* the caught exceptions and leaves pickle_data
PickleWriteFails ==
  /\ pc = "write"
  /\ \/ /\ dirs' = dirs \ {Parent(request.directory)}
        /\ outcome' = "False"
     \/ /\ dirs' = dirs
        /\ outcome' = "PermissionError"
  /\ pc' = "idle"
  /\ UNCHANGED <<config, request, files, call, fields, locals, history>>

\* FederalReserveMins.pickle_data: if directory: open and dump self.dataset;
\* nothing is checked, nothing is caught and None is returned
PickleMinutes ==
  /\ pc = "idle"
  /\ kind = "FederalReserveMins"
  /\ \E p \in Paths :
       /\ request' = PickleRequest(p)
       /\ started' = <<>> /\ joined' = {} /\ fetched' = <<>>
       /\ entry_dataset' = dataset
       /\ \/ /\ p = "" \/ ~NoSuchDirectory(Parent(p))
             /\ files' = IF p = "" THEN {} ELSE {p}
             /\ outcome' = "None"
          \/ /\ p # ""
             /\ files' = {}
             /\ outcome' = IF NoSuchDirectory(Parent(p)) THEN "FileNotFoundError"
                           ELSE "PermissionError"
  /\ UNCHANGED <<config, dirs, call, fields, locals, pc>>

(***************************************************************************)
(* The specification.                                                      *)
(***************************************************************************)
Slots == 1..Len(thread)

ThreadStep(t) ==
  /\ t \in Slots
  /\ \/ AddArticleDate(t)
     \/ AddArticleNoDate(t)
     \/ AddArticleFails(t)
     \/ AddArticleFetch(t)

Dispatcher ==
  \/ RetrievalInit
  \/ StartThread
  \/ JoinOldest
  \/ PopFails
  \/ JoinRemaining
  \/ StripArticles

\* _multithreaded_article_retrieval and the threads it started
Retrieval == Dispatcher \/ \E t \in Slots : ThreadStep(t)

Next ==
  \/ Construct
  \/ Call
  \/ ObtainCurrent
  \/ ObtainHistorical
  \/ ObtainFails
  \/ ObtainUnbound
  \/ ObtainReturn
  \/ Retrieval
  \/ Assemble
  \/ AssembleEmpty
  \/ AssembleFails

Spec == Init /\ [][Next]_vars

\* the retrieval keeps running while it can: the dispatcher takes its next
\* step, a started thread takes its own (a urlopen returns or raises).
\* Nothing obliges the user to call again.
FairSpec == Spec /\ WF_vars(Retrieval)

\* the public methods of an instance constructed with arguments of any type:
\* find_beige_books / find_statements / find_minutes and pickle_data
ApiNext ==
  \/ ConstructFails
  \/ TypeFails
  \/ PickleRejected
  \/ PickleMkdirFails
  \/ PickleData
  \/ PickleWrite
  \/ PickleWriteFails
  \/ PickleMinutes
  \/ Next

ApiSpec == ApiInit /\ [][ApiNext]_vars

(***************************************************************************)
(* Direct calls of the helpers: _find_date_from_link on a link, and the    *)
(* replace chain of find_* on a body, applied to its own result again.     *)
(***************************************************************************)
Years == {"1996", "2019"}
Months == {"01", "02", "03", "04", "05", "06", "07", "08", "09", "10", "11", "12"}
Days == {"01", "30"}
LinkPrefixes == {"/monetarypolicy/fomcminutes", "/fomc/beigebook/2013/", "/files/20130306/bb"}
LinkSuffixes == {".htm", "a.htm"}

\* links with a block of six (YYYYMM) or eight (YYYYMMDD) digits
DateLinks ==
  {pre \o y \o m \o d \o suf :
     pre \in LinkPrefixes, y \in Years, m \in Months, d \in Days \cup {""},
     suf \in LinkSuffixes}

\* the bodies the replace chain is applied to: every string of at most
\* MaxBody characters over a letter and the characters it treats
BodyChars == {"a", " ", "\n", "\r", "\t", NBSP}

RECURSIVE Bodies(_)
Bodies(n) ==
  IF n = 0 THEN {""}
  ELSE Bodies(n - 1) \cup {b \o c : b \in Bodies(n - 1), c \in BodyChars}

HelperInit ==
  /\ Unconstructed
  /\ site = 1
  /\ start_year = HISTORICAL_SPLIT
  /\ THREAD_NUM = 1
  /\ mistyped = "none"
  /\ \/ \E link \in DateLinks :
          call = [fn |-> "_find_date_from_link", arg |-> link, applied |-> 0, result |-> ""]
     \/ \E body \in Bodies(MaxBody) :
          call = [fn |-> "normalise", body |-> body, arg |-> body, applied |-> 0,
                  result |-> body]

\* self._find_date_from_link(link) returns
FindDate ==
  /\ pc = "idle"
  /\ call.fn = "_find_date_from_link"
  /\ call.applied = 0
  /\ HasDigitRun(call.arg, DateWidth(kind))
  /\ call' = [call EXCEPT !.applied = 1, !.result = _find_date_from_link(kind, call.arg)]
  /\ UNCHANGED <<config, request, disk, fields, locals, history, pc, outcome>>

\* re.findall(...)[0] raises IndexError
FindDateFails ==
  /\ pc = "idle"
  /\ call.fn = "_find_date_from_link"
  /\ call.applied = 0
  /\ ~HasDigitRun(call.arg, DateWidth(kind))
  /\ call' = [call EXCEPT !.applied = 1, !.result = "IndexError"]
  /\ UNCHANGED <<config, request, disk, fields, locals, history, pc, outcome>>

\* the replace chain is applied to the result of the application before
NormaliseBody ==
  /\ pc = "idle"
  /\ call.fn = "normalise"
  /\ call.applied < Applications
  /\ call' = [call EXCEPT !.applied = @ + 1, !.arg = call.result,
                          !.result = Normalise(kind, call.result)]
  /\ UNCHANGED <<config, request, disk, fields, locals, history, pc, outcome>>

HelperNext ==
  \/ Construct
  \/ FindDate
  \/ FindDateFails
  \/ NormaliseBody

HelperSpec == HelperInit /\ [][HelperNext]_vars

(***************************************************************************)
(* Properties.                                                             *)
(***************************************************************************)
\* the text of the document the site serves for a location
DocumentText(k, loc) == ArticleText(PageParagraphs(k, TrueUrl(loc)))

AllDone == \A t \in Slots : thread[t] = "done"

\* the slots whose thread has been started and not yet joined
Outstanding == {t \in Slots : thread[t] # "new"} \ joined

\* C1: when _multithreaded_article_retrieval has returned, articles has one
\* body per link, and the body in slot i is the stripped text of the document
\* at links[i] if the thread of slot i completed and the empty string if it
\* did not -- never the text of another location, whatever the interleaving.
C1_BodyInOwnSlot ==
  pc = "assemble" =>
    /\ Len(articles) = Len(links)
    /\ \A i \in 1..Len(links) :
         articles[i] = IF thread[i] = "done" THEN Strip(DocumentText(kind, links[i]))
                       ELSE ""

\* C1 witness: three threads completed and the dates were recorded in another
\* order than the links
C1_Witness ==
  /\ pc = "assemble"
  /\ Len(links) = 3
  /\ AllDone
  /\ dates[1] # _find_date_from_link(kind, links[1])
  /\ articles[1] # articles[2] /\ articles[2] # articles[3] /\ articles[1] # articles[3]

\* C2: the date at position i of dates is the date resolved from links[i],
\* in every interleaving of the threads.
C2_DateInOwnPosition ==
  pc \in {"dispatch", "assemble"} =>
    \A i \in 1..Len(dates) :
      /\ HasDigitRun(links[i], DateWidth(kind))
      /\ dates[i] = _find_date_from_link(kind, links[i])

\* C3: with THREAD_NUM >= 1, at most THREAD_NUM threads are started and not
\* yet joined.
C3_AtMostThreadNumOutstanding ==
  THREAD_NUM >= 1 => Cardinality(Outstanding) <= THREAD_NUM

\* C3 witness: the window is full while links remain to be dispatched
C3_Witness ==
  /\ pc = "dispatch"
  /\ THREAD_NUM = 2
  /\ Cardinality(Outstanding) = THREAD_NUM
  /\ index < Len(links)

\* C4: with THREAD_NUM >= 1, if every started thread eventually ends, the
\* retrieval eventually returns, having started exactly one thread per index,
\* each index once and none skipped.
C4_RetrievalReturns ==
  (pc = "dispatch" /\ THREAD_NUM >= 1)
    ~> (pc = "assemble" /\ started = [i \in 1..Len(links) |-> i])

\* C4 witness: the retrieval has returned after threads waited for admission
C4_Witness ==
  /\ pc = "assemble"
  /\ THREAD_NUM = 1
  /\ started = <<1, 2, 3>>
  /\ Len(links) = 3

\* C5: the list of links produced by discovery holds no location twice.
C5_NoLocationTwice ==
  pc \in {"retrieve", "dispatch", "assemble"} =>
    \A i, j \in 1..Len(links) : links[i] = links[j] => i = j

\* C6: the returned dataset never holds two rows with the same date, for
\* every class.
C6_NoDateTwice ==
  outcome = "returned" =>
    \A i, j \in 1..Len(dataset.rows) :
      dataset.rows[i].date = dataset.rows[j].date => i = j

\* C7: the rows of the dataset are in ascending order of date.
C7_DatasetAscending ==
  outcome = "returned" => IsSorted(dataset.rows)

\* C7 witness: a dataset was returned from dates recorded out of order
C7_Witness ==
  /\ outcome = "returned"
  /\ Len(dataset.rows) >= 2
  /\ ~IsSorted(Frame(dates, articles))

\* C8: when start_year > HISTORICAL_SPLIT and the current index page is
\* fetched, discovery opens no historical page and completes, and the links
\* are exactly those of the current index page.
C8_CurrentOnly ==
  start_year > HISTORICAL_SPLIT =>
    /\ \A i \in 1..Len(fetched) : fetched[i].page = "current"
    /\ outcome # "UnboundLocalError"
    /\ pc \in {"retrieve", "dispatch", "assemble"} => links = CurrentHrefs(kind, site)

\* C9: when the fetch of an index page fails during discovery, the failure
\* leaves the top-level operation: no thread is ever started, no dataset is
\* returned and self.dataset keeps the value it had when the call began.
C9_DiscoveryFailureIsFatal ==
  (\E i \in 1..Len(fetched) : ~fetched[i].ok) =>
    /\ pc = "idle"
    /\ outcome = "URLError"
    /\ started = <<>>
    /\ dataset = entry_dataset

\* C9 witness: a historical page failed in a call on an instance that already
\* held a dataset
C9_Witness ==
  /\ outcome = "URLError"
  /\ Len(fetched) >= 2
  /\ ~fetched[Len(fetched)].ok
  /\ dataset # NoDataset

\* C10: once a thread has failed to find the date digits in its link, no
\* further thread is started.
C10_NoStartAfterFormatError ==
  [][(\E t \in Slots : thread[t] = "IndexError") => started' = started]_vars

\* the threads whose page fetch failed after their date was recorded
Failed == {t \in Slots : thread[t] = "URLError"}

\* the retrieval has returned, at least one page fetch failed and every other
\* thread completed
FetchFailedOnly ==
  /\ pc = "assemble"
  /\ Failed # {}
  /\ \A t \in Slots : thread[t] \in {"done", "URLError"}

\* the positions of the rows with an empty body
EmptyRows(rows) == {i \in 1..Len(rows) : rows[i].body = ""}

\* the slots of a failed thread are empty and all others hold their document
SlotsAfterFailure ==
  \A t \in Slots :
    articles[t] = IF t \in Failed THEN "" ELSE Strip(DocumentText(kind, links[t]))

\* C11 as stated: when the page fetch of a unit fails after its date was
\* recorded, the other units fill their slots, the slot of the failed unit
\* stays empty, and the top-level operation assembles and returns a dataset
\* with one row per location, the failed one with an empty body.
C11_OneRowPerLocation ==
  [][FetchFailedOnly =>
       /\ SlotsAfterFailure
       /\ outcome' = "returned"
       /\ Len(dataset'.rows) = Len(links)
       /\ EmptyRows(dataset'.rows) # {}]_vars

\* C11 amended: as above, but the dataset has one row per location only for
\* the Beige Books and the statements, with as many empty bodies as failed
\* units; for the minutes it has one row per distinct date of the locations.
C11_FailedUnitLeavesEmptyBody ==
  [][FetchFailedOnly =>
       /\ SlotsAfterFailure
       /\ outcome' = "returned"
       /\ kind # "FederalReserveMins" =>
            /\ Len(dataset'.rows) = Len(links)
            /\ Cardinality(EmptyRows(dataset'.rows)) = Cardinality(Failed)
       /\ kind = "FederalReserveMins" =>
            Len(dataset'.rows) = Cardinality({dates[i] : i \in 1..Len(dates)})]_vars

\* C11 witness: a dataset of three rows was returned, one body empty because
\* its fetch failed and the two others fetched
C11_Witness ==
  /\ outcome = "returned"
  /\ Len(dataset.rows) = 3
  /\ Cardinality({i \in 1..3 : articles[i] = ""}) = 1
  /\ Cardinality(EmptyRows(dataset.rows)) = 1

\* the first w consecutive digits of s, found by scanning from position p on;
\* the empty string if there are none
RECURSIVE LeftmostDigits(_, _, _)
LeftmostDigits(s, w, p) ==
  IF p + w - 1 > Len(s) THEN ""
  ELSE IF \A i \in p..(p + w - 1) : Char(s, i) \in Digits THEN SubSeq(s, p, p + w - 1)
       ELSE LeftmostDigits(s, w, p + 1)

\* the first run of digits of s that is exactly w digits long (no digit
\* before it, none after it); the empty string if there is none
RECURSIVE ExactDigitRun(_, _, _)
ExactDigitRun(s, w, p) ==
  IF p + w - 1 > Len(s) THEN ""
  ELSE IF /\ \A i \in p..(p + w - 1) : Char(s, i) \in Digits
          /\ p > 1 => Char(s, p - 1) \notin Digits
          /\ p + w <= Len(s) => Char(s, p + w) \notin Digits
       THEN SubSeq(s, p, p + w - 1)
       ELSE ExactDigitRun(s, w, p + 1)

\* year, month and day joined by slashes, the month without its leading zero
SlashDate(digits, day) ==
  SubSeq(digits, 1, 4) \o "/"
    \o (IF Char(digits, 5) = "0" THEN Char(digits, 6) ELSE SubSeq(digits, 5, 6))
    \o "/" \o day

\* _find_date_from_link has returned for the link call.arg
DateResolved == call.fn = "_find_date_from_link" /\ call.applied = 1

\* C12: for the statements and the minutes, a link whose first 8 consecutive
\* digits are YYYYMMDD resolves to YYYY/MM/DD when the first month digit is
\* not 0 and to YYYY/M/DD when it is; the day is the last two digits as they
\* are written.
C12_MonthLosesLeadingZero ==
  (DateResolved /\ kind # "BeigeBooks" /\ LeftmostDigits(call.arg, 8, 1) # "") =>
    LET d == LeftmostDigits(call.arg, 8, 1)
    IN  /\ call.result = SlashDate(d, SubSeq(d, 7, 8))
        /\ Char(d, 5) # "0" => call.result = SubSeq(d, 1, 4) \o "/" \o SubSeq(d, 5, 6)
                                               \o "/" \o SubSeq(d, 7, 8)

\* C12 witness: 20190901 has been resolved to 2019/9/01
C12_Witness ==
  /\ DateResolved
  /\ kind = "MonetaryPolicyCommittee"
  /\ call.arg = "/monetarypolicy/fomcminutes20190901.htm"
  /\ call.result = "2019/9/01"

\* C13 as stated: for the Beige Books, the date is built from the first run
\* of exactly 6 digits of the link: day 01, the month by the rule of C12.
C13_FirstRunOfExactlySix ==
  (DateResolved /\ kind = "BeigeBooks" /\ ExactDigitRun(call.arg, 6, 1) # "") =>
    call.result = SlashDate(ExactDigitRun(call.arg, 6, 1), "01")

\* C13 amended: for the Beige Books, the date is built from the first 6
\* consecutive digits of the link, which may begin a longer run of digits:
\* day 01, the month by the rule of C12.
C13_FirstSixDigits ==
  (DateResolved /\ kind = "BeigeBooks" /\ LeftmostDigits(call.arg, 6, 1) # "") =>
    call.result = SlashDate(LeftmostDigits(call.arg, 6, 1), "01")

\* C13 witness: a link whose first digits are a run of eight, followed by a
\* run of exactly six, has been resolved from the run of eight
C13_Witness ==
  /\ DateResolved
  /\ kind = "BeigeBooks"
  /\ call.arg = "/files/20130306/bb201911.htm"
  /\ call.result = "2013/3/01"

\* the body has none of the characters find_* replaces, and neither begins
\* nor ends with a character strip() removes
Clean(body) ==
  /\ \A i \in 1..Len(body) : Char(body, i) \notin {"\n", "\r", "\t", NBSP}
  /\ body # "" => Char(body, 1) \notin Whitespace /\ Char(body, Len(body)) \notin Whitespace

\* the text with each newline and carriage return turned into one space and
\* each tab and non-breaking space left out, character by character
RECURSIVE Respaced(_)
Respaced(text) ==
  IF text = "" THEN ""
  ELSE LET c == Char(text, 1)
       IN  (IF c \in {"\n", "\r"} THEN " " ELSE IF c \in {"\t", NBSP} THEN "" ELSE c)
             \o Respaced(SubSeq(text, 2, Len(text)))

\* C14: every body of the returned dataset, for every class, holds no
\* newline, carriage return, tab or non-breaking space and no whitespace at
\* its ends: it is the stripped text of a slot with each newline and carriage
\* return turned into one space and each tab and non-breaking space deleted.
C14_BodiesNormalised ==
  outcome = "returned" =>
    \A i \in 1..Len(dataset.rows) :
      /\ Clean(dataset.rows[i].body)
      /\ \E j \in 1..Len(articles) : dataset.rows[i].body = Respaced(articles[j])

\* C14 witness: a dataset was returned whose slots held a tab, a carriage
\* return and a newline
C14_Witness ==
  /\ outcome = "returned"
  /\ \E j \in 1..Len(articles) :
       /\ Contains(articles[j], "\t")
       /\ Contains(articles[j], "\r")
       /\ Contains(articles[j], "\n")
       /\ \E i \in 1..Len(dataset.rows) :
            /\ dataset.rows[i].body = Respaced(articles[j])
            /\ dataset.rows[i].body # articles[j]

\* C15: the replace chain applied to a body it has produced returns that
\* body unchanged.
C15_NormaliseIdempotent ==
  (call.fn = "normalise" /\ call.applied >= 2) => call.result = call.arg

\* C15 witness: a body with a tab, a newline and a space was changed by the
\* first application and left as it was by the second
C15_Witness ==
  /\ call.fn = "normalise"
  /\ call.applied = 2
  /\ call.body = "\t\n "
  /\ call.arg # call.body
  /\ call.result = call.arg

\* the last call was pickle_data with a path that ends neither in .pkl nor
\* in .pickle
BadExtensionCall ==
  request.op = "pickle_data" /\ ~HasPickleExtension(request.directory)

\* the call has ended with TypeError and has done nothing: no directory
\* made, no page opened, no thread started, no file written, the dataset as
\* it was
RejectedUntouched ==
  /\ pc = "idle"
  /\ outcome = "TypeError"
  /\ ~Exists(Parent(request.directory))
  /\ fetched = <<>> /\ started = <<>>
  /\ files = {}
  /\ dataset = entry_dataset

\* C16: for each of the three classes, pickle_data with a path that ends
\* neither in .pkl nor in .pickle raises the configuration error before
\* anything else happens.
C16_BadExtensionRejected == BadExtensionCall => RejectedUntouched

\* C16 for the two classes that check the extension
C16_CheckedClassesReject ==
  (BadExtensionCall /\ kind # "FederalReserveMins") => RejectedUntouched

\* C16 failing case: FederalReserveMins has written data.txt
C16_MinutesWriteAnyPath ==
  /\ kind = "FederalReserveMins"
  /\ request = PickleRequest("data.txt")
  /\ outcome = "None"
  /\ files = {"data.txt"}

\* pickle_data was called with a path of a right extension and has ended
PickleEnded ==
  /\ request.op = "pickle_data"
  /\ HasPickleExtension(request.directory)
  /\ pc = "idle"

\* C17: when the path cannot be created or written, pickle_data returns
\* False and no exception of the file system leaves it; it returns True only
\* when the file was written.
C17_WriteFailureReturnsFalse ==
  PickleEnded =>
    /\ outcome \notin {"FileNotFoundError", "PermissionError"}
    /\ outcome = "True" => request.directory \in files

\* C17 failing case: BeigeBooks.pickle_data("data.pkl"), a file name without
\* a parent, has ended with the FileNotFoundError of os.mkdir('')
C17_BareNameRaises ==
  /\ kind = "BeigeBooks"
  /\ request = PickleRequest("data.pkl")
  /\ pc = "idle"
  /\ outcome = "FileNotFoundError"
  /\ files = {}

\* discovery has opened a page or the retrieval has started a thread
Ran == fetched # <<>> \/ started # <<>>

\* C18: for each of the three classes, a constructor argument of the wrong
\* type makes __init__ raise, so that no discovery and no fetch ever runs
\* with it.
C18_MistypedNeverRuns ==
  mistyped # "none" => (pc \in {"new", "unconstructed"} /\ ~Ran)

\* C18 for the two classes that check the types
C18_CheckedClassesRaise ==
  (mistyped # "none" /\ kind # "FederalReserveMins") =>
    (pc \in {"new", "unconstructed"} /\ ~Ran)

\* C18 failing case: FederalReserveMins(thread_num="10") was constructed,
\* find_minutes ran the discovery and failed on len(jobs) < self.THREAD_NUM
C18_MinutesRunMistyped ==
  /\ kind = "FederalReserveMins"
  /\ mistyped = "thread_num"
  /\ Len(fetched) >= 2
  /\ pc = "idle"
  /\ outcome = "TypeError"

\* the thread of slot t takes the step from status a to status b
ThreadMoves(t, a, b) ==
  /\ t \in 1..Len(thread')
  /\ thread[t] = a
  /\ thread'[t] = b

\* C19: during the retrieval every write of a thread goes to the position of
\* its own index: its date to position t of dates, its text to slot t of
\* articles, and to nothing else.
C19_WritesToOwnSlot ==
  [][\A t \in Slots :
       /\ ThreadMoves(t, "started", "dated") =>
            /\ Len(dates') >= t
            /\ dates' = [i \in 1..Len(dates') |-> IF i = t THEN dates'[t] ELSE dates[i]]
       /\ ThreadMoves(t, "dated", "done") =>
            articles' = [articles EXCEPT ![t] = articles'[t]]]_vars

\* C19 failing case: the thread of slot 2 has appended its date at position 1
\* while the thread of slot 1 has not written yet
C19_DateOutOfSlot ==
  /\ pc = "dispatch"
  /\ Len(thread) >= 2
  /\ thread[1] = "started"
  /\ thread[2] = "dated"
  /\ dates = <<_find_date_from_link(kind, links[2])>>

\* every thread that was started has ended
StartedTerminated == \A t \in Slots : thread[t] # "new" => Terminated(t)

\* C20: neither the final strip of the slots nor the assembly begins while a
\* started thread is still running.
C20_AssemblyAfterAllThreads ==
  [][/\ (pc = "dispatch" /\ pc' = "assemble") => StartedTerminated
     /\ pc = "assemble" => StartedTerminated]_vars

\* C20 witness: the slots were stripped after three threads, two at a time,
\* had been started and joined
C20_Witness ==
  /\ pc = "assemble"
  /\ THREAD_NUM = 2
  /\ started = <<1, 2, 3>>
  /\ joined = {1, 2, 3}

\* C21: the threads are started in increasing order of index; with
\* THREAD_NUM = N >= 1 the thread of slot t > N is started only after the
\* thread of slot t - N has ended and been joined; and the dispatcher joins
\* the oldest thread of the window, so the joined slots are always the first
\* ones and the window holds the slots after them, in order.
C21_SlidingWindow ==
  (pc = "dispatch" /\ THREAD_NUM >= 1) =>
    /\ started = [i \in 1..Len(started) |-> i]
    /\ joined = 1..Cardinality(joined)
    /\ jobs = [i \in 1..Len(jobs) |-> Cardinality(joined) + i]
    /\ \A t \in Slots :
         (thread[t] # "new" /\ t > THREAD_NUM) =>
           (Terminated(t - THREAD_NUM) /\ (t - THREAD_NUM) \in joined)

\* C21 witness: the window of two is full, its younger thread has ended, its
\* oldest has not, and the third link is not started
C21_Witness ==
  /\ pc = "dispatch"
  /\ THREAD_NUM = 2
  /\ jobs = <<1, 2>>
  /\ Len(links) = 3
  /\ thread[1] = "dated"
  /\ thread[2] = "done"
  /\ thread[3] = "new"

\* the index pages a complete discovery opens: the current page, then the
\* historical page of each year from start_year to HISTORICAL_SPLIT
PagesOfDiscovery ==
  <<[page |-> "current", ok |-> TRUE]>>
    \o [i \in 1..(IF start_year <= HISTORICAL_SPLIT THEN HISTORICAL_SPLIT - start_year + 1 ELSE 0)
          |-> [page |-> "historical", year |-> start_year + i - 1, ok |-> TRUE]]

\* C22: when a thread has been started, discovery has opened the current
\* index page and then exactly one historical page for each year of
\* [start_year, HISTORICAL_SPLIT], in ascending order; and no step that
\* starts a thread or follows the start of one changes the links.
C22_DiscoveryBeforeRetrieval ==
  [][/\ started # <<>> => fetched = PagesOfDiscovery
     /\ started' # <<>> => links' = links]_vars

\* C22 witness: the first thread runs after the current page and the pages
\* of two historical years were opened
C22_Witness ==
  /\ pc = "dispatch"
  /\ start_year = HISTORICAL_SPLIT - 1
  /\ started = <<1>>
  /\ Len(fetched) = 3
  /\ Len(links) = 3

\* the link is taken as absolute: it holds the base URL, or for the minutes
\* it is longer than the threshold of 50 characters
Absolute(k, link) ==
  IF k = "FederalReserveMins" THEN Len(link) > 50 ELSE Contains(link, main_url)

\* the threads that have recorded their date and open their page next
Requesting == {t \in Slots : thread[t] = "dated"}

\* C23: for every class, a thread requests the link itself when the link is
\* absolute and main_url + link otherwise; an absolute link is never
\* prefixed with main_url.
C23_AbsoluteNeverPrefixed ==
  \A t \in Requesting :
    RequestUrl(kind, links[t]) =
      IF Absolute(kind, links[t]) THEN links[t] ELSE main_url \o links[t]

\* C23 for the two classes that test the link
C23_TestedClasses ==
  kind # "MonetaryPolicyCommittee" =>
    \A t \in Requesting :
      RequestUrl(kind, links[t]) =
        IF Absolute(kind, links[t]) THEN links[t] ELSE main_url \o links[t]

\* C23 failing case: a thread of MonetaryPolicyCommittee is about to request
\* main_url + link for a link that begins with main_url, a URL under which
\* the site serves nothing
C23_StatementPrefixed ==
  /\ kind = "MonetaryPolicyCommittee"
  /\ \E t \in Requesting :
       /\ SubSeq(links[t], 1, Len(main_url)) = main_url
       /\ RequestUrl(kind, links[t]) = main_url \o links[t]
       /\ ~PageExists(kind, RequestUrl(kind, links[t]))
       /\ PageExists(kind, links[t])

\* the dispatcher is at its loop with no thread to be started ever
NoThreadAllowed == pc = "dispatch" /\ THREAD_NUM <= 0 /\ Len(links) >= 1

\* the dispatcher is at its loop with no link
NoLink == pc = "dispatch" /\ Len(links) = 0

\* the retrieval has returned with no date and no body
EmptyRetrieved == pc = "assemble" /\ dates = <<>> /\ articles = <<>> /\ started = <<>>

\* C24: with THREAD_NUM <= 0 and at least one link, the retrieval starts no
\* thread and its first dispatcher step raises (it neither waits nor loops);
\* with no link it returns with no date and no body, whatever THREAD_NUM is.
C24_NoThreadFailsAtOnce ==
  /\ [][/\ NoThreadAllowed =>
            (started = <<>> /\ index = 0 /\ pc' = "idle" /\ outcome' = "IndexError")
        /\ NoLink => EmptyRetrieved']_vars
  /\ NoThreadAllowed ~> (pc = "idle" /\ outcome = "IndexError")
  /\ NoLink ~> EmptyRetrieved

\* C24 witness: with a negative THREAD_NUM and three links the call has
\* ended with the IndexError of jobs.pop(0), no thread started
C24_Witness ==
  /\ THREAD_NUM < 0
  /\ Len(links) = 3
  /\ pc = "idle"
  /\ outcome = "IndexError"
  /\ started = <<>>
  /\ dates = <<>>

\* the step is the call of find_*, or the start of the retrieval in it
CallStep == pc = "idle" /\ pc' = "current"
RetrievalStep == pc = "retrieve" /\ pc' = "dispatch"

\* the step returns a dataset on an instance that held one before the call,
\* every page being served in both calls: no body of the earlier dataset is
\* empty and every thread of this call completed.  No two links have the
\* same date (sort_index does not fix the order of the rows of one date).
SecondReturn ==
  /\ pc = "assemble"
  /\ \A i, j \in 1..Len(dates) : dates[i] = dates[j] => i = j
  /\ pc' # "assemble"
  /\ outcome' \in {"returned", "running"}
  /\ AllDone
  /\ entry_dataset # NoDataset
  /\ entry_dataset.rows # <<>>
  /\ EmptyRows(entry_dataset.rows) = {}

\* every row of the dataset is made of a date and of a body of this call
RowsOfThisCall(rows) ==
  \A i \in 1..Len(rows) :
    /\ \E j \in 1..Len(dates) : rows[i].date = ToDatetime(dates[j])
    /\ \E j \in 1..Len(articles) : rows[i].body = Respaced(articles[j])

\* find_* empties links when it is called and dates and articles when the
\* retrieval starts, and a dataset it returns is made of this call's dates
\* and bodies
BuffersReinitialised ==
  /\ CallStep => links' = <<>>
  /\ RetrievalStep => (dates' = <<>> /\ articles' = [i \in 1..Len(links) |-> ""])
  /\ (pc = "assemble" /\ outcome' \in {"returned", "running"} /\ pc' # "assemble") =>
       RowsOfThisCall(dataset'.rows)

\* C25: a second call of find_* on the same instance empties links, dates
\* and articles before it fills them, its dataset holds nothing of the call
\* before, and with the site serving the same pages it has the same rows as
\* the dataset of the call before.
C25_SecondRunSameRows ==
  [][/\ BuffersReinitialised
     /\ SecondReturn => dataset' = entry_dataset]_vars

\* C25 without the comparison of the two datasets
C25_BuffersReinitialised == [][BuffersReinitialised]_vars


----------------------------------------------------------------------------
\* C26: the counts of _multithreaded_article_retrieval

\* the threads whose re.findall(...)[0] raised: they recorded no date
Undated == {t \in Slots : thread[t] = "IndexError"}

\* _multithreaded_article_retrieval is running, or has handed over to the
\* assembly of the dataset
InRetrieval == pc \in {"dispatch", "assemble"}

\* C26: while the retrieval runs, the recorded dates are at most as many as
\* the started threads, which are at most as many as the links; when the
\* assembly starts, dates and articles have the same length, the number of
\* links, exactly when the date of every link was found.
C26_DatesWithinStarted ==
  /\ InRetrieval =>
        /\ Len(dates) <= Len(started)
        /\ Len(started) <= Len(links)
        /\ Len(articles) = Len(links)
  /\ pc = "assemble" =>
        /\ Len(started) = Len(links)
        /\ (Len(dates) = Len(articles)) <=> (Undated = {})

\* the assembly starts after one of three threads found no date: two dates
\* for three articles
C26_Witness ==
  /\ pc = "assemble"
  /\ THREAD_NUM = 2
  /\ Len(links) = 3
  /\ Cardinality(Undated) = 1
  /\ Len(dates) = 2
  /\ Len(articles) = 3

\* the assembly starts with a date for every article
C26_WitnessAllDated ==
  /\ pc = "assemble"
  /\ Len(links) = 3
  /\ Undated = {}
  /\ Len(dates) = 3

=============================================================================
